---- MODULE Spec2Model ----
(***************************************************************************)
(* Redsync: a client-side distributed lock manager (Redlock) over N        *)
(* independent Redis instances.  Callers run lock / extend / unlock of     *)
(* src/src/redsync.rs against a cluster of instances that execute the      *)
(* three scripts of src/src/instance.rs.  Time is a global millisecond     *)
(* clock; every instance operation is one atomic step.                     *)
(***************************************************************************)
EXTENDS Integers, Sequences, FiniteSets, TLC

(* ------------------------------ bounds -------------------------------- *)
NumInstances == 3
MaxTime == 4
MaxCalls == 3
MaxFaults == 1
MaxFaultsDuo == 0
MaxRetry == 2
RetryDelayMs == 1
JitterSamples == 2

MaxCallsLive == 2
MaxCluster == 5
MaxUses == 2
MaxTtlMs == 250
MaxDelayMs == 40
MaxJitterMs == 4
MaxErrors == 2
MaxPayload == 2

(* -------------------------- program constants -------------------------- *)
DriftPercent == 1
DriftSlackMs == 2
TimeoutPercent == 1
NonceLen == 20
DefaultRetryCount == 3
DefaultRetryDelayMs == 200

Callers == {"A", "B"}
Resources == {"r1"}
TinyTTL == 2
ShortTTL == 3
LongTTL == 100
TTLs == {TinyTTL, ShortTTL, LongTTL}
Cluster == 1 .. NumInstances

ErrorKinds == {"RedisError", "UnexpectedResponse", "ResourceLocked", "InvalidLease"}
Faults == {"none", "conn", "lost", "garbled"}

(* --------------------------- builder.rs -------------------------------- *)
\* seeded bug: half of the cluster, rounded up
QuorumCeil(nn) == (nn + 1) \div 2

\* (self.cluster.len() as u32) / 2 + 1
Quorum(nn) == nn \div 2 + 1

quorum == Quorum(NumInstances)

\* retry_jitter = retry_delay.as_millis() * 0.5, kept in half milliseconds
RetryJitterHalfMs == RetryDelayMs

(* --------------------------- instance.rs ------------------------------- *)
NoEntry == [value |-> 0, exp |-> 0]

\* seeded bug: a key holding the same value is set again (no nx for the owner)
LOCK_SCRIPT_Reentrant(kv, key, value, ttl, t) ==
    IF kv[key] = NoEntry \/ kv[key].value = value
    THEN [reply |-> "OK",
          kv |-> [kv EXCEPT ![key] = [value |-> value, exp |-> t + ttl]]]
    ELSE [reply |-> "nil", kv |-> kv]

\* set KEYS[1] ARGV[1] nx px ARGV[2]
LOCK_SCRIPT(kv, key, value, ttl, t) ==
    IF kv[key] = NoEntry
    THEN [reply |-> "OK",
          kv |-> [kv EXCEPT ![key] = [value |-> value, exp |-> t + ttl]]]
    ELSE [reply |-> "nil", kv |-> kv]

\* seeded bug: the owner is told 1 and the key is left in place
UNLOCK_SCRIPT_NoDel(kv, key, value) ==
    IF kv[key] # NoEntry /\ kv[key].value = value
    THEN [reply |-> "1", kv |-> kv]
    ELSE [reply |-> "0", kv |-> kv]

\* seeded bug: the comparison is inverted (~= for ==)
UNLOCK_SCRIPT_OtherValue(kv, key, value) ==
    IF kv[key] # NoEntry /\ kv[key].value # value
    THEN [reply |-> "1", kv |-> [kv EXCEPT ![key] = NoEntry]]
    ELSE [reply |-> "0", kv |-> kv]

\* seeded bug: the delete does not compare the stored value
UNLOCK_SCRIPT_AnyValue(kv, key, value) ==
    IF kv[key] # NoEntry
    THEN [reply |-> "1", kv |-> [kv EXCEPT ![key] = NoEntry]]
    ELSE [reply |-> "0", kv |-> kv]

\* seeded bug: the stored value is compared with a missing argument
UNLOCK_SCRIPT_WrongArg(kv, key, value) == [reply |-> "0", kv |-> kv]

\* if get(KEYS[1]) == ARGV[1] then del(KEYS[1]) else 0
UNLOCK_SCRIPT(kv, key, value) ==
    IF kv[key] # NoEntry /\ kv[key].value = value
    THEN [reply |-> "1", kv |-> [kv EXCEPT ![key] = NoEntry]]
    ELSE [reply |-> "0", kv |-> kv]

\* seeded bug: a missing key is created again (set px for pexpire)
EXTEND_SCRIPT_Upsert(kv, key, value, ttl, t) ==
    IF kv[key] = NoEntry \/ kv[key].value = value
    THEN [reply |-> "1",
          kv |-> [kv EXCEPT ![key] = [value |-> value, exp |-> t + ttl]]]
    ELSE [reply |-> "0", kv |-> kv]

\* seeded bug: the expiry of any present key is reset, whoever owns it
EXTEND_SCRIPT_AnyValue(kv, key, value, ttl, t) ==
    IF kv[key] # NoEntry
    THEN [reply |-> "1", kv |-> [kv EXCEPT ![key].exp = t + ttl]]
    ELSE [reply |-> "0", kv |-> kv]

\* if get(KEYS[1]) == ARGV[1] then pexpire(KEYS[1], ARGV[2]) else 0
EXTEND_SCRIPT(kv, key, value, ttl, t) ==
    IF kv[key] # NoEntry /\ kv[key].value = value
    THEN [reply |-> "1", kv |-> [kv EXCEPT ![key].exp = t + ttl]]
    ELSE [reply |-> "0", kv |-> kv]

\* One round trip to the server: the connection may fail before the script
\* runs ("conn"), the reply may be lost after it ran ("lost"), or the server
\* may answer with a value of another shape ("garbled").
Invoke(fault, kv, ran) ==
    CASE fault = "conn"    -> [reply |-> "err", kv |-> kv]
      [] fault = "lost"    -> [reply |-> "err", kv |-> ran.kv]
      [] fault = "garbled" -> [reply |-> "other", kv |-> ran.kv]
      [] OTHER             -> ran

acquire(kv, lock, t, fault) ==
    LET r == Invoke(fault, kv, LOCK_SCRIPT(kv, lock.resource, lock.value, lock.ttl, t))
    IN  [res |-> CASE r.reply = "OK"  -> "Ok"
                   [] r.reply = "nil" -> "ResourceLocked"
                   [] r.reply = "err" -> "RedisError"
                   [] OTHER           -> "UnexpectedResponse",
         kv |-> r.kv]

extend(kv, lock, t, fault) ==
    LET r == Invoke(fault, kv, EXTEND_SCRIPT(kv, lock.resource, lock.value, lock.ttl, t))
    IN  [res |-> CASE r.reply = "1"   -> "Ok"
                   [] r.reply = "0"   -> "InvalidLease"
                   [] r.reply = "err" -> "RedisError"
                   [] OTHER           -> "UnexpectedResponse",
         kv |-> r.kv]

release(kv, lock, fault) ==
    LET r == Invoke(fault, kv, UNLOCK_SCRIPT(kv, lock.resource, lock.value))
    IN  [res |-> CASE r.reply = "1"   -> "Ok"
                   [] r.reply = "0"   -> "InvalidLease"
                   [] r.reply = "err" -> "RedisError"
                   [] OTHER           -> "UnexpectedResponse",
         kv |-> r.kv]

(* ---------------------------- redsync.rs ------------------------------- *)
NoLock == [resource |-> "", value |-> 0, ttl |-> 0, expiry |-> 0]
NoResult == [kind |-> "None", errors |-> <<>>]

\* seeded bug: the 2 ms of slack are left out
DriftNoSlack(ttl) == (ttl * DriftPercent) \div 100

\* drift = (ttl_ms as f64 * drift_factor) as u64 + 2
Drift(ttl) == (ttl * DriftPercent) \div 100 + DriftSlackMs

\* seeded bug: every attempt draws a lock id of its own
NewLockRegenerated(resource, value, ttl, startAt) ==
    [resource |-> resource, value |-> value + startAt + 1, ttl |-> ttl,
     expiry |-> startAt + ttl - Drift(ttl)]

\* the candidate Lock of one attempt
NewLock(resource, value, ttl, startAt) ==
    [resource |-> resource, value |-> value, ttl |-> ttl,
     expiry |-> startAt + ttl - Drift(ttl)]

\* seeded bug: the validity window is not checked
GrantedVotesOnly(v, lock, t) == v >= quorum

\* votes >= self.quorum && lock.expiry > Instant::now()
Granted(v, lock, t) == v >= quorum /\ lock.expiry > t

\* seeded bug: every answer counts as a vote
CountVoteAll(v, res) == v + 1

\* Ok(()) => votes += 1
CountVote(v, res) == IF res = "Ok" THEN v + 1 ELSE v

\* seeded bug: the newest error is put first
PushErrorFront(errs, res) == IF res = "Ok" THEN errs ELSE <<res>> \o errs

\* Err(e) => errors.push(e)
PushError(errs, res) == IF res = "Ok" THEN errs ELSE Append(errs, res)

\* seeded bug: the errors are not cleared between attempts
ResetNothing(errs) == errs

\* MultiError::reset
Reset(errs) == <<>>

\* jitter = sample * retry_jitter with sample = k / JitterSamples in [-1, 1)
GetRetryDelay(k) ==
    IF k > 0
    THEN RetryDelayMs + (k * RetryJitterHalfMs) \div (2 * JitterSamples)
    ELSE RetryDelayMs - ((-k) * RetryJitterHalfMs) \div (2 * JitterSamples)

JitterDraws == (-JitterSamples) .. (JitterSamples - 1)

VARIABLES
    now,        \* the monotonic clock, in ms
    store,      \* store[i][key]: the entry of instance i under key
    nextNonce,  \* the next fresh lock id
    quota,      \* operations each caller may still call
    retryCount, \* the retry_count of each caller's Manager
    ttlsOf,     \* the ttls each caller asks for
    budget,     \* transport faults that may still be injected
    pc,         \* where each caller is
    op,         \* the operation each caller runs: Lock, Extend, Unlock
    req,        \* call(): resource, value, ttl arguments
    cand,       \* call(): `lock` of the current attempt
    attempt,    \* call(): loop counter
    start,      \* call(): `start` of the current attempt
    idx,        \* position in the cluster of the running fan-out
    votes,      \* call(): `votes`
    errors,     \* call(): `errors`
    n,          \* unlock(): `n`
    uerrors,    \* unlock(): `errors`
    wake,       \* end of the running thread::sleep
    held,       \* the Lock the caller got from its last successful lock/extend
    lease,      \* the caller relies on `held`
    result,     \* what the caller's last operation returned
    treturn,    \* the clock read by the validity check that returned the Lock
    answers,    \* history: the instance results of the current attempt, in order
    rellog,     \* history: the release calls of the last unlock, in order
    relans,     \* history: the results of those release calls
    fanouts,    \* history: fan-outs started in the current call
    sleeps,     \* history: sleeps started in the current call
    builder,    \* the Builder under construction
    asked,      \* history: the options the Builder was given
    manager,    \* the Manager that build() handed back
    uses,       \* operations called on that Manager
    sampled,    \* what get_retry_delay() last did
    multi,      \* a MultiError
    elem,       \* the error includes() is asked about
    found       \* what includes() answered

\* the cluster, its callers and their operations
cvars == <<now, store, nextNonce, quota, retryCount, ttlsOf, budget, pc, op, req, cand, attempt, start, idx,
           votes, errors, n, uerrors, wake, held, lease, result, treturn, answers,
           rellog, relans, fanouts, sleeps>>

\* the values the library computes outside of an operation on the cluster
aux == <<builder, asked, manager, uses, sampled, multi, elem, found>>

vars == <<cvars, aux>>

NoBuilder == [stage |-> "none"]
NoManager == [stage |-> "none"]
\* no option was given: each field holds the value last given, if any
NoOptions == [retry_count |-> {}, retry_delay |-> {}]
NoSample == [kind |-> "None"]
NoError == [tag |-> "None", payload |-> 0]

\* nothing is being built, sampled or looked up
Detached ==
    /\ builder = NoBuilder
    /\ asked = NoOptions
    /\ manager = NoManager
    /\ uses = 0
    /\ sampled = NoSample
    /\ multi = <<>>
    /\ elem = NoError
    /\ found = "None"

\* no caller is inside an operation
Locals ==
    /\ pc = [c \in Callers |-> "idle"]
    /\ op = [c \in Callers |-> "None"]
    /\ req = [c \in Callers |-> NoLock]
    /\ cand = [c \in Callers |-> NoLock]
    /\ attempt = [c \in Callers |-> 0]
    /\ start = [c \in Callers |-> 0]
    /\ idx = [c \in Callers |-> 1]
    /\ votes = [c \in Callers |-> 0]
    /\ errors = [c \in Callers |-> <<>>]
    /\ n = [c \in Callers |-> 0]
    /\ uerrors = [c \in Callers |-> <<>>]
    /\ wake = [c \in Callers |-> 0]
    /\ result = [c \in Callers |-> NoResult]
    /\ treturn = [c \in Callers |-> 0]
    /\ answers = [c \in Callers |-> <<>>]
    /\ rellog = [c \in Callers |-> <<>>]
    /\ relans = [c \in Callers |-> <<>>]
    /\ fanouts = [c \in Callers |-> 0]
    /\ sleeps = [c \in Callers |-> 0]

\* the empty cluster and one caller, with transport faults
InitCluster ==
    /\ now = 0
    /\ store = [i \in Cluster |-> [k \in Resources |-> NoEntry]]
    /\ nextNonce = 1
    /\ held = [c \in Callers |-> NoLock]
    /\ lease = [c \in Callers |-> FALSE]
    /\ Locals
    /\ quota = [c \in Callers |-> IF c = "A" THEN MaxCalls ELSE 0]
    /\ retryCount = [c \in Callers |-> MaxRetry]
    /\ ttlsOf = [c \in Callers |-> TTLs]
    /\ budget = MaxFaults

Init == InitCluster /\ Detached

\* two callers contending for the resource, from the empty cluster or from
\* the state in which A has just acquired the resource.  A's Manager makes
\* one attempt or, built with retry_count(0), none
InitDuo ==
    /\ now = 0
    /\ \E r \in Resources, ttl \in {ShortTTL, LongTTL}, got \in BOOLEAN :
          /\ store = [i \in Cluster |->
                        IF got THEN LOCK_SCRIPT([k \in Resources |-> NoEntry], r, 1, ttl, 0).kv
                        ELSE [k \in Resources |-> NoEntry]]
          /\ held = [c \in Callers |->
                       IF got /\ c = "A" THEN NewLock(r, 1, ttl, 0) ELSE NoLock]
          /\ lease = [c \in Callers |-> got /\ c = "A"]
          /\ nextNonce = IF got THEN 2 ELSE 1
    /\ Locals
    /\ quota = [c \in Callers |-> 1]
    /\ \E rc \in {0, 1} :
          retryCount = [c \in Callers |-> IF c = "A" THEN rc ELSE MaxRetry]
    /\ ttlsOf = [c \in Callers |-> IF c = "A" THEN {ShortTTL, LongTTL} ELSE {ShortTTL}]
    /\ budget = MaxFaultsDuo
    /\ Detached

\* a fault may be injected while the budget lasts
FaultOK(f) == f = "none" \/ budget > 0
Charge(f) == IF f = "none" THEN budget ELSE budget - 1

\* lines 61-69: the head of one iteration of the retry loop
StartAttempt(c, k, r) ==
    /\ attempt' = [attempt EXCEPT ![c] = k]
    /\ votes' = [votes EXCEPT ![c] = 0]
    /\ start' = [start EXCEPT ![c] = now]
    /\ cand' = [cand EXCEPT ![c] = NewLock(r.resource, r.value, r.ttl, now)]
    /\ idx' = [idx EXCEPT ![c] = 1]
    /\ answers' = [answers EXCEPT ![c] = <<>>]
    /\ fanouts' = [fanouts EXCEPT ![c] = IF k = 1 THEN 1 ELSE @ + 1]
    /\ pc' = [pc EXCEPT ![c] = "fanout"]

\* seeded bug: extend reports the error of lock
RetriesExceededLock(o, errs) == [kind |-> "LockRetriesExceeded", errors |-> errs]

\* what call() reports once the loop is exhausted (lines 94-97)
RetriesExceeded(o, errs) ==
    [kind |-> IF o = "Lock" THEN "LockRetriesExceeded" ELSE "ExtendRetriesExceeded",
     errors |-> errs]

\* line 60 with retry_count = 0: the range 1..=0 is empty, the loop body is
\* never entered and call() goes straight to the error return of lines 94-97
NoAttempt(c) ==
    /\ answers' = [answers EXCEPT ![c] = <<>>]
    /\ fanouts' = [fanouts EXCEPT ![c] = 0]
    /\ pc' = [pc EXCEPT ![c] = "done"]
    /\ UNCHANGED <<attempt, votes, start, cand, idx>>

\* Redsync::lock: a fresh value, then call(Call::Lock, ...)
LockCall(c, r, ttl) ==
    /\ pc[c] = "idle"
    /\ ttl \in ttlsOf[c]
    /\ quota[c] > 0
    /\ quota' = [quota EXCEPT ![c] = @ - 1]
    /\ LET rq == [resource |-> r, value |-> nextNonce, ttl |-> ttl, expiry |-> 0]
       IN  /\ req' = [req EXCEPT ![c] = rq]
           /\ IF 1 <= retryCount[c]
              THEN /\ StartAttempt(c, 1, rq)
                   /\ result' = [result EXCEPT ![c] = NoResult]
              ELSE /\ NoAttempt(c)
                   /\ result' = [result EXCEPT ![c] = RetriesExceeded("Lock", <<>>)]
    /\ nextNonce' = nextNonce + 1
    /\ op' = [op EXCEPT ![c] = "Lock"]
    /\ errors' = [errors EXCEPT ![c] = <<>>]
    /\ sleeps' = [sleeps EXCEPT ![c] = 0]
    /\ UNCHANGED <<now, store, retryCount, ttlsOf, budget, n, uerrors, rellog, relans, wake,
                   held, lease, treturn>>
    /\ UNCHANGED aux

\* Redsync::extend: call(Call::Extend, lock.resource, lock.value, ttl)
ExtendCall(c, ttl) ==
    /\ pc[c] = "idle"
    /\ ttl \in ttlsOf[c]
    /\ held[c] # NoLock
    /\ quota[c] > 0
    /\ quota' = [quota EXCEPT ![c] = @ - 1]
    /\ LET rq == [resource |-> held[c].resource, value |-> held[c].value,
                  ttl |-> ttl, expiry |-> 0]
       IN  /\ req' = [req EXCEPT ![c] = rq]
           /\ IF 1 <= retryCount[c]
              THEN /\ StartAttempt(c, 1, rq)
                   /\ result' = [result EXCEPT ![c] = NoResult]
                   /\ lease' = [lease EXCEPT ![c] = FALSE]
              ELSE /\ NoAttempt(c)
                   /\ result' = [result EXCEPT ![c] = RetriesExceeded("Extend", <<>>)]
                   /\ UNCHANGED lease
    /\ op' = [op EXCEPT ![c] = "Extend"]
    /\ errors' = [errors EXCEPT ![c] = <<>>]
    /\ sleeps' = [sleeps EXCEPT ![c] = 0]
    /\ UNCHANGED <<now, store, nextNonce, retryCount, ttlsOf, budget, n, uerrors, rellog, relans, wake, held, treturn>>
    /\ UNCHANGED aux

\* lines 71-81: one iteration of the fan-out of call()
Fanout(c, f) ==
    /\ pc[c] = "fanout"
    /\ FaultOK(f)
    /\ LET i == idx[c]
           out == IF op[c] = "Lock"
                  THEN acquire(store[i], cand[c], now, f)
                  ELSE extend(store[i], cand[c], now, f)
       IN  /\ store' = [store EXCEPT ![i] = out.kv]
           /\ votes' = [votes EXCEPT ![c] = CountVote(@, out.res)]
           /\ errors' = [errors EXCEPT ![c] = PushError(@, out.res)]
           /\ answers' = [answers EXCEPT ![c] = Append(@, out.res)]
           /\ idx' = [idx EXCEPT ![c] = i + 1]
           /\ pc' = [pc EXCEPT ![c] = IF i = NumInstances THEN "check" ELSE "fanout"]
    /\ budget' = Charge(f)
    /\ UNCHANGED <<now, nextNonce, retryCount, ttlsOf, quota, op, req, cand, attempt, start, n, uerrors, wake,
                   held, lease, result, treturn, rellog, relans, fanouts, sleeps>>
    /\ UNCHANGED aux

\* lines 83-87: the quorum and validity check; the Lock is returned, or the
\* cleanup unlock(&lock) is entered
Check(c) ==
    /\ pc[c] = "check"
    /\ IF Granted(votes[c], cand[c], now)
       THEN /\ held' = [held EXCEPT ![c] = cand[c]]
            /\ lease' = [lease EXCEPT ![c] = TRUE]
            /\ result' = [result EXCEPT ![c] = [kind |-> "Ok", errors |-> <<>>]]
            /\ treturn' = [treturn EXCEPT ![c] = now]
            /\ pc' = [pc EXCEPT ![c] = "done"]
            /\ UNCHANGED <<idx, n, uerrors, rellog, relans>>
       ELSE /\ pc' = [pc EXCEPT ![c] = "unlock"]
            /\ idx' = [idx EXCEPT ![c] = 1]
            /\ n' = [n EXCEPT ![c] = 0]
            /\ uerrors' = [uerrors EXCEPT ![c] = <<>>]
            /\ rellog' = [rellog EXCEPT ![c] = <<>>]
            /\ relans' = [relans EXCEPT ![c] = <<>>]
            /\ UNCHANGED <<held, lease, result, treturn>>
    /\ UNCHANGED <<now, store, nextNonce, retryCount, ttlsOf, quota, budget, op, req,
                   cand, attempt, start, votes, errors, wake, answers, fanouts, sleeps>>
    /\ UNCHANGED aux

\* Redsync::unlock called by the caller
UnlockCall(c) ==
    /\ pc[c] = "idle"
    /\ held[c] # NoLock
    /\ quota[c] > 0
    /\ quota' = [quota EXCEPT ![c] = @ - 1]
    /\ op' = [op EXCEPT ![c] = "Unlock"]
    /\ lease' = [lease EXCEPT ![c] = FALSE]
    /\ pc' = [pc EXCEPT ![c] = "unlock"]
    /\ idx' = [idx EXCEPT ![c] = 1]
    /\ n' = [n EXCEPT ![c] = 0]
    /\ uerrors' = [uerrors EXCEPT ![c] = <<>>]
    /\ rellog' = [rellog EXCEPT ![c] = <<>>]
    /\ relans' = [relans EXCEPT ![c] = <<>>]
    /\ result' = [result EXCEPT ![c] = NoResult]
    /\ UNCHANGED <<now, store, nextNonce, retryCount, ttlsOf, budget, req, cand, attempt, start, votes,
                   errors, wake, held, treturn, answers, fanouts, sleeps>>
    /\ UNCHANGED aux

\* seeded bug: the cleanup presents a lock id of its own, not the attempt's
UnlockArgFresh(c) ==
    IF op[c] = "Unlock" THEN held[c] ELSE [cand[c] EXCEPT !.value = nextNonce]

\* the Lock unlock() was given: the caller's, or the failed attempt's
UnlockArg(c) == IF op[c] = "Unlock" THEN held[c] ELSE cand[c]

\* seeded bug: a bare quorum of releases is not enough
UnlockResultStrict(k, errs) ==
    IF k <= quorum THEN [kind |-> "UnlockFailed", errors |-> errs]
    ELSE [kind |-> "Ok", errors |-> <<>>]

\* what unlock() returns (lines 111-115)
UnlockResult(k, errs) ==
    IF k < quorum THEN [kind |-> "UnlockFailed", errors |-> errs]
    ELSE [kind |-> "Ok", errors |-> <<>>]

\* seeded bug: the loop has no bound
MoreAttemptsForever(k, rc) == TRUE

\* seeded bug: the loop sleeps after its last iteration too
MoreAttemptsAlways(k, rc) == k <= rc

\* the loop goes on after a failed attempt (line 88)
MoreAttempts(k, rc) == k < rc

\* lines 104-109: one iteration of the fan-out of unlock().  After the last
\* one unlock() returns: to the caller, or into call() at lines 88-97, where
\* the loop body ends (its locals are dropped) with a sleep or call() returns
Release(c, f, d) ==
    /\ pc[c] = "unlock"
    /\ FaultOK(f)
    /\ LET i == idx[c]
           out == release(store[i], UnlockArg(c), f)
           n2 == CountVote(n[c], out.res)
           ue2 == PushError(uerrors[c], out.res)
           log2 == Append(rellog[c], [inst |-> i, value |-> UnlockArg(c).value])
       IN  /\ store' = [store EXCEPT ![i] = out.kv]
           /\ IF i < NumInstances
              THEN /\ d = 0
                   /\ n' = [n EXCEPT ![c] = n2]
                   /\ uerrors' = [uerrors EXCEPT ![c] = ue2]
                   /\ rellog' = [rellog EXCEPT ![c] = log2]
                   /\ relans' = [relans EXCEPT ![c] = Append(@, out.res)]
                   /\ idx' = [idx EXCEPT ![c] = i + 1]
                   /\ UNCHANGED <<pc, result, errors, wake, sleeps, cand, start, votes,
                                  answers>>
              ELSE IF op[c] = "Unlock"
              THEN /\ d = 0
                   /\ n' = [n EXCEPT ![c] = n2]
                   /\ uerrors' = [uerrors EXCEPT ![c] = ue2]
                   /\ rellog' = [rellog EXCEPT ![c] = log2]
                   /\ relans' = [relans EXCEPT ![c] = Append(@, out.res)]
                   /\ idx' = [idx EXCEPT ![c] = i + 1]
                   /\ result' = [result EXCEPT ![c] = UnlockResult(n2, ue2)]
                   /\ pc' = [pc EXCEPT ![c] = "done"]
                   /\ UNCHANGED <<errors, wake, sleeps, cand, start, votes, answers>>
              ELSE IF MoreAttempts(attempt[c], retryCount[c])
              THEN /\ d \in {GetRetryDelay(k) : k \in JitterDraws}
                   /\ errors' = [errors EXCEPT ![c] = Reset(@)]
                   /\ wake' = [wake EXCEPT ![c] = now + d]
                   /\ sleeps' = [sleeps EXCEPT ![c] = @ + 1]
                   /\ pc' = [pc EXCEPT ![c] = "sleep"]
                   /\ n' = [n EXCEPT ![c] = 0]
                   /\ uerrors' = [uerrors EXCEPT ![c] = <<>>]
                   /\ rellog' = [rellog EXCEPT ![c] = log2]
                   /\ relans' = [relans EXCEPT ![c] = <<>>]
                   /\ idx' = [idx EXCEPT ![c] = 1]
                   /\ cand' = [cand EXCEPT ![c] = NoLock]
                   /\ start' = [start EXCEPT ![c] = 0]
                   /\ votes' = [votes EXCEPT ![c] = 0]
                   /\ answers' = [answers EXCEPT ![c] = <<>>]
                   /\ UNCHANGED result
              ELSE /\ d = 0
                   /\ n' = [n EXCEPT ![c] = n2]
                   /\ uerrors' = [uerrors EXCEPT ![c] = ue2]
                   /\ rellog' = [rellog EXCEPT ![c] = log2]
                   /\ relans' = [relans EXCEPT ![c] = Append(@, out.res)]
                   /\ idx' = [idx EXCEPT ![c] = i + 1]
                   /\ result' = [result EXCEPT ![c] = RetriesExceeded(op[c], errors[c])]
                   /\ pc' = [pc EXCEPT ![c] = "done"]
                   /\ UNCHANGED <<errors, wake, sleeps, cand, start, votes, answers>>
    /\ budget' = Charge(f)
    /\ UNCHANGED <<now, nextNonce, retryCount, ttlsOf, quota, op, req, attempt, held,
                   lease, treturn, fanouts>>
    /\ UNCHANGED aux

\* thread::sleep returns and the loop starts its next iteration
Wake(c) ==
    /\ pc[c] = "sleep"
    /\ now >= wake[c]
    /\ StartAttempt(c, attempt[c] + 1, req[c])
    /\ wake' = [wake EXCEPT ![c] = 0]
    /\ UNCHANGED <<now, store, nextNonce, retryCount, ttlsOf, quota, budget, op, req, errors, n, uerrors,
                   held, lease, result, treturn, rellog, relans, sleeps>>
    /\ UNCHANGED aux

\* the operation has returned: its locals go out of scope and the caller is
\* left with the Lock it holds
Return(c) ==
    /\ pc[c] = "done"
    /\ pc' = [pc EXCEPT ![c] = "idle"]
    /\ op' = [op EXCEPT ![c] = "None"]
    /\ req' = [req EXCEPT ![c] = NoLock]
    /\ cand' = [cand EXCEPT ![c] = NoLock]
    /\ attempt' = [attempt EXCEPT ![c] = 0]
    /\ start' = [start EXCEPT ![c] = 0]
    /\ idx' = [idx EXCEPT ![c] = 1]
    /\ votes' = [votes EXCEPT ![c] = 0]
    /\ errors' = [errors EXCEPT ![c] = <<>>]
    /\ n' = [n EXCEPT ![c] = 0]
    /\ uerrors' = [uerrors EXCEPT ![c] = <<>>]
    /\ wake' = [wake EXCEPT ![c] = 0]
    /\ result' = [result EXCEPT ![c] = NoResult]
    /\ treturn' = [treturn EXCEPT ![c] = 0]
    /\ answers' = [answers EXCEPT ![c] = <<>>]
    /\ rellog' = [rellog EXCEPT ![c] = <<>>]
    /\ relans' = [relans EXCEPT ![c] = <<>>]
    /\ fanouts' = [fanouts EXCEPT ![c] = 0]
    /\ sleeps' = [sleeps EXCEPT ![c] = 0]
    /\ UNCHANGED <<now, store, nextNonce, retryCount, ttlsOf, quota, budget, held, lease>>
    /\ UNCHANGED aux

\* a key expires ttl ms after it was set or re-expired
Expire(kv, t) == [k \in Resources |-> IF kv[k] # NoEntry /\ kv[k].exp <= t
                                      THEN NoEntry ELSE kv[k]]

\* one millisecond passes
Advance ==
    /\ now' = now + 1
    /\ store' = [i \in Cluster |-> Expire(store[i], now + 1)]
    /\ UNCHANGED <<nextNonce, retryCount, ttlsOf, quota, budget, pc, op, req, cand, attempt, start, idx, votes,
                   errors, n, uerrors, wake, held, lease, result, treturn, answers,
                   rellog, relans, fanouts, sleeps>>
    /\ UNCHANGED aux

Tick ==
    /\ now < MaxTime
    /\ Advance

Next ==
    \/ \E c \in Callers, r \in Resources, ttl \in TTLs : LockCall(c, r, ttl)
    \/ \E c \in Callers, ttl \in TTLs : ExtendCall(c, ttl)
    \/ \E c \in Callers : UnlockCall(c)
    \/ \E c \in Callers, f \in Faults : Fanout(c, f)
    \/ \E c \in Callers : Check(c)
    \/ \E c \in Callers, f \in Faults, d \in 0 .. (2 * RetryDelayMs) : Release(c, f, d)
    \/ \E c \in Callers : Wake(c)
    \/ \E c \in Callers : Return(c)
    \/ Tick

Spec == Init /\ [][Next]_vars

SpecDuo == InitDuo /\ [][Next]_vars

\* a caller sleeps and its thread::sleep has not ended yet
Sleeping == \E c \in Callers : pc[c] = "sleep" /\ now < wake[c]

\* the clock does not stop while a thread::sleep is pending
TickOn ==
    /\ now < MaxTime \/ Sleeping
    /\ Advance

\* the next step of caller c inside its operation; every instance call
\* returns, with a result or a transport error
Progress(c) ==
    \/ \E f \in Faults : Fanout(c, f)
    \/ Check(c)
    \/ \E f \in Faults, d \in 0 .. (2 * RetryDelayMs) : Release(c, f, d)
    \/ Wake(c)

NextLive ==
    \/ \E c \in Callers, r \in Resources, ttl \in TTLs : LockCall(c, r, ttl)
    \/ \E c \in Callers, ttl \in TTLs : ExtendCall(c, ttl)
    \/ \E c \in Callers : UnlockCall(c)
    \/ \E c \in Callers : Progress(c)
    \/ \E c \in Callers : Return(c)
    \/ TickOn

\* the thread of a caller keeps running and time passes
Fairness ==
    /\ WF_vars(TickOn)
    /\ \A c \in Callers : WF_vars(Progress(c))

\* the empty cluster and one caller, with transport faults
InitLive ==
    /\ now = 0
    /\ store = [i \in Cluster |-> [k \in Resources |-> NoEntry]]
    /\ nextNonce = 1
    /\ held = [c \in Callers |-> NoLock]
    /\ lease = [c \in Callers |-> FALSE]
    /\ Locals
    /\ quota = [c \in Callers |-> IF c = "A" THEN MaxCallsLive ELSE 0]
    /\ retryCount = [c \in Callers |-> MaxRetry]
    /\ ttlsOf = [c \in Callers |-> TTLs]
    /\ budget = MaxFaults
    /\ Detached

SpecLive == InitLive /\ [][NextLive]_vars /\ Fairness

TypeOK ==
    /\ now \in 0 .. MaxTime
    /\ \A c \in Callers : pc[c] \in {"idle", "fanout", "check", "unlock", "sleep", "done"}

(* ----------------------- builder.rs: the Builder ----------------------- *)
ClusterSizes == 0 .. MaxCluster
RetryCounts == {1, 5}
RetryDelays == {0, 1, 100, 101}

\* seeded bug: the jitter is derived from the default delay
RetryJitterOfDefault(delayMs) ==
    [ms |-> DefaultRetryDelayMs \div 2, half |-> DefaultRetryDelayMs % 2]

\* retry_delay.as_millis() as f64 * 0.5: whole milliseconds and the half
RetryJitter(delayMs) == [ms |-> delayMs \div 2, half |-> delayMs % 2]

\* RedlockBuilder::new
New(size) ==
    /\ builder = NoBuilder /\ manager = NoManager
    /\ builder' = [stage |-> "new", cluster |-> size,
                   retry_count |-> DefaultRetryCount,
                   retry_delay |-> DefaultRetryDelayMs]
    /\ asked' = NoOptions
    /\ UNCHANGED <<cvars, manager, uses, sampled, multi, elem, found>>

\* RedlockBuilder::retry_count
RetryCountOpt(v) ==
    /\ builder.stage = "new"
    /\ builder' = [builder EXCEPT !.retry_count = v]
    /\ asked' = [asked EXCEPT !.retry_count = {v}]
    /\ UNCHANGED <<cvars, manager, uses, sampled, multi, elem, found>>

\* RedlockBuilder::retry_delay
RetryDelayOpt(d) ==
    /\ builder.stage = "new"
    /\ builder' = [builder EXCEPT !.retry_delay = d]
    /\ asked' = [asked EXCEPT !.retry_delay = {d}]
    /\ UNCHANGED <<cvars, manager, uses, sampled, multi, elem, found>>

\* the Manager of RedlockBuilder::build
Built(b) ==
    [stage |-> "built",
     cluster |-> b.cluster,
     quorum |-> Quorum(b.cluster),
     retry_count |-> b.retry_count,
     retry_delay |-> b.retry_delay,
     retry_jitter |-> RetryJitter(b.retry_delay),
     drift_factor |-> DriftPercent]

\* RedlockBuilder::build consumes the Builder
Build ==
    /\ builder.stage = "new"
    /\ manager' = Built(builder)
    /\ builder' = NoBuilder
    /\ UNCHANGED <<cvars, asked, uses, sampled, multi, elem, found>>

\* lock, extend and unlock borrow the Manager (&self)
Operate(o) ==
    /\ manager.stage = "built"
    /\ uses < MaxUses
    /\ uses' = uses + 1
    /\ UNCHANGED <<cvars, builder, asked, manager, sampled, multi, elem, found>>

NextBuilder ==
    \/ \E size \in ClusterSizes : New(size)
    \/ \E v \in RetryCounts : RetryCountOpt(v)
    \/ \E d \in RetryDelays : RetryDelayOpt(d)
    \/ Build
    \/ \E o \in {"lock", "extend", "unlock"} : Operate(o)

SpecBuilder == Init /\ [][NextBuilder]_vars

(* ------------------ redsync.rs: get_retry_delay ------------------------ *)
\* retry_jitter in units of half a millisecond
Halves(retryJitter) == 2 * retryJitter.ms + retryJitter.half

\* Redsync::get_retry_delay for the sample k / JitterSamples of
\* gen_range(-1.0..1.0).  jitter = sample * retry_jitter; `jitter as u64`
\* drops the fraction; Duration's sub panics when the result would be negative
get_retry_delay(retryDelay, retryJitter, k) ==
    LET mag == ((IF k > 0 THEN k ELSE -k) * Halves(retryJitter)) \div (2 * JitterSamples)
    IN  IF k > 0 /\ Halves(retryJitter) > 0
        THEN [kind |-> "Ok", ms |-> retryDelay + mag]
        ELSE IF mag > retryDelay THEN [kind |-> "Panic"]
             ELSE [kind |-> "Ok", ms |-> retryDelay - mag]

\* the retry_delay a Manager may be built with; its retry_jitter is always
\* the one build() derives from it (builder.rs, line 33)
SampleDelays == (0 .. MaxDelayMs) \cup {100, DefaultRetryDelayMs}

DefaultBuilder(size) ==
    [stage |-> "new", cluster |-> size,
     retry_count |-> DefaultRetryCount, retry_delay |-> DefaultRetryDelayMs]

InitDelay ==
    /\ InitCluster
    /\ builder = NoBuilder /\ asked = NoOptions /\ uses = 0
    /\ multi = <<>> /\ elem = NoError /\ found = "None"
    /\ sampled = NoSample
    /\ \E d \in SampleDelays :
          manager = Built([DefaultBuilder(NumInstances) EXCEPT !.retry_delay = d])

\* one call of get_retry_delay
Sample(k) ==
    /\ manager.stage = "built"
    /\ sampled' = get_retry_delay(manager.retry_delay, manager.retry_jitter, k)
    /\ UNCHANGED <<cvars, builder, asked, manager, uses, multi, elem, found>>

NextDelay == \E k \in JitterDraws : Sample(k)

SpecDelay == InitDelay /\ [][NextDelay]_vars

\* get_retry_delay as a function of the two fields it reads, self.retry_delay
\* and self.retry_jitter (redsync.rs, lines 25-26: two independent pub(crate)
\* fields), and of the sample: the values each argument is drawn from
JitterDelays == (0 .. MaxJitterMs) \cup {100, DefaultRetryDelayMs}
JitterBounds == {[ms |-> j, half |-> h] : j \in 0 .. MaxJitterMs, h \in {0, 1}}
                    \cup {RetryJitter(d) : d \in JitterDelays}

\* the function applied to one choice of its arguments; no Manager is built
Jittered(d, j, k) ==
    /\ sampled' = [kind |-> "Delay", retry_delay |-> d, retry_jitter |-> j,
                   out |-> get_retry_delay(d, j, k)]
    /\ UNCHANGED <<cvars, builder, asked, manager, uses, multi, elem, found>>

NextJitter == \E d \in JitterDelays, j \in JitterBounds, k \in JitterDraws : Jittered(d, j, k)

SpecJitter == Init /\ [][NextJitter]_vars

(* ----------------------- errors.rs: MultiError ------------------------- *)
\* the errors of one instance that the library builds itself: a tag and,
\* for UnexpectedResponse, the redis::Value it carries.  (A RedisError carries
\* a redis::RedisError, whose equality is the redis crate's.)
InstanceErrors ==
    {[tag |-> "ResourceLocked", payload |-> 0], [tag |-> "InvalidLease", payload |-> 0]}
    \cup {[tag |-> "UnexpectedResponse", payload |-> v] : v \in 0 .. MaxPayload}

\* #[derive(PartialEq)] on RedsyncError: the same variant and equal fields
ErrorEq(a, b) ==
    /\ a.tag = b.tag
    /\ a.tag = "UnexpectedResponse" => a.payload = b.payload

\* MultiError::includes: Vec::contains
includes(errs, e) == \E i \in 1 .. Len(errs) : ErrorEq(errs[i], e)

\* errors.push(e)
Push(e) ==
    /\ Len(multi) < MaxErrors
    /\ multi' = Append(multi, e)
    /\ elem' = NoError
    /\ found' = "None"
    /\ UNCHANGED <<cvars, builder, asked, manager, uses, sampled>>

\* errors.includes(e)
Includes(e) ==
    /\ elem' = e
    /\ found' = IF includes(multi, e) THEN "true" ELSE "false"
    /\ UNCHANGED <<cvars, builder, asked, manager, uses, sampled, multi>>

\* errors.reset()
ResetErrors ==
    /\ multi # <<>>
    /\ multi' = Reset(multi)
    /\ elem' = NoError
    /\ found' = "None"
    /\ UNCHANGED <<cvars, builder, asked, manager, uses, sampled>>

NextErrors ==
    \/ \E e \in InstanceErrors : Push(e)
    \/ \E e \in InstanceErrors : Includes(e)
    \/ ResetErrors

SpecErrors == Init /\ [][NextErrors]_vars

(* ------------------- instance.rs: connection timeout ------------------- *)
\* the ttl values, in ms, a Lock is presented with
TimeoutTtls == 0 .. MaxTtlMs

\* Duration::from_millis((ttl.as_millis() as f64 * 0.01) as u64): the cast
\* truncates, and nothing is done about a result of 0
timeout(ttl) == (ttl * TimeoutPercent) \div 100

InstanceOps == {"acquire", "extend", "release"}

\* the head of acquire, extend and release:
\* get_connection_with_timeout(self.timeout(&lock.ttl))
Connect(o, ttl) ==
    /\ sampled' = [kind |-> "Timeout", op |-> o, ttl |-> ttl, ms |-> timeout(ttl)]
    /\ UNCHANGED <<cvars, builder, asked, manager, uses, multi, elem, found>>

NextTimeout == \E o \in InstanceOps, ttl \in TimeoutTtls : Connect(o, ttl)

SpecTimeout == Init /\ [][NextTimeout]_vars

(* ------------------------- reading the histories ----------------------- *)
\* the instances of a fan-out that answered ok
OkSet(ans) == {i \in DOMAIN ans : ans[i] = "Ok"}
OkCount(ans) == Cardinality(OkSet(ans))
\* the errors of a fan-out, in cluster order
ErrorsOf(ans) == SelectSeq(ans, LAMBDA x : x # "Ok")
\* the caller holds a valid lease
Valid(c) == lease[c] /\ held[c] # NoLock /\ now < held[c].expiry
InCall(c) == op[c] \in {"Lock", "Extend"}
Returned(c, o, kind) == pc[c] = "done" /\ op[c] = o /\ result[c].kind = kind
NoFaultYet == budget = MaxFaults

(* --------------------------------- C1 ---------------------------------- *)
\* C1: mutual exclusion.  At no instant do two different callers both hold
\* a valid lease (returned by lock or extend, not expired, not given back by
\* unlock or extend) on the same resource.
C1_MutualExclusion ==
    \A c1 \in Callers, c2 \in Callers :
        (c1 # c2 /\ Valid(c1) /\ Valid(c2)) => held[c1].resource # held[c2].resource

\* A holds a valid lease while every instance denies B's acquire
C1_Witness ==
    /\ Valid("A")
    /\ op["B"] = "Lock" /\ pc["B"] = "unlock"
    /\ answers["B"] = [i \in Cluster |-> "ResourceLocked"]

(* --------------------------------- C2 ---------------------------------- *)
\* C2: every Lock returned by lock or extend has expiry > now at the instant
\* of return; an attempt whose fan-out took at least ttl - drift returns no
\* Lock, even with a quorum of votes.
C2_ValidAtReturn ==
    \A c \in Callers :
        (pc[c] = "done" /\ InCall(c) /\ result[c].kind = "Ok") =>
            /\ held[c].expiry > treturn[c]
            /\ treturn[c] - start[c] < req[c].ttl - Drift(req[c].ttl)

\* a quorum voted for the attempt, which was cleaned up all the same
C2_Witness ==
    \E c \in Callers :
        /\ InCall(c) /\ pc[c] = "unlock"
        /\ OkCount(answers[c]) >= quorum

(* --------------------------------- C3 ---------------------------------- *)
\* the check of one attempt of lock: it returns Ok exactly when a quorum of
\* instances answered ok and the candidate expiry is later than the clock
C3_Attempt(c) ==
    (pc[c] = "check" /\ op[c] = "Lock" /\ pc'[c] # "check") =>
        ( (pc'[c] = "done" /\ result'[c].kind = "Ok")
          <=> (OkCount(answers[c]) >= quorum /\ cand[c].expiry > now) )

\* lock returns Ok or, after retry_count failed attempts, LockRetriesExceeded
C3_Final(c) ==
    (pc[c] = "done" /\ op[c] = "Lock") =>
        \/ result[c].kind = "Ok"
        \/ result[c].kind = "LockRetriesExceeded" /\ fanouts[c] = retryCount[c]

\* C3: an attempt of lock returns Ok(Lock) iff at least quorum instances
\* answered ok to acquire and the candidate expiry is later than the clock
\* read after the fan-out; any other instance outcome is no vote; when no
\* attempt satisfies the condition lock returns LockRetriesExceeded.
C3_QuorumAndValidity ==
    /\ [](\A c \in Callers : C3_Final(c))
    /\ [][\A c \in Callers : C3_Attempt(c)]_vars

\* lock returned Ok although one instance answered with an error
C3_Witness ==
    \E c \in Callers :
        /\ Returned(c, "Lock", "Ok")
        /\ OkCount(answers[c]) = quorum
        /\ Len(ErrorsOf(answers[c])) = NumInstances - quorum

(* --------------------------------- C4 ---------------------------------- *)
\* C4: a Lock returned by lock(resource, ttl) carries the requested resource
\* and ttl, and expiry <= start + ttl - floor(ttl * 0.01) - 2 ms with start
\* read at the beginning of the successful attempt.
C4_LockFields ==
    \A c \in Callers :
        Returned(c, "Lock", "Ok") =>
            /\ held[c].resource = req[c].resource
            /\ held[c].ttl = req[c].ttl
            /\ held[c].expiry <= start[c] + req[c].ttl - (req[c].ttl \div 100) - 2

\* the second attempt of a lock with a ttl of at least 100 ms succeeded
C4_Witness ==
    \E c \in Callers :
        /\ Returned(c, "Lock", "Ok")
        /\ fanouts[c] = 2
        /\ req[c].ttl >= 100
        /\ start[c] > 0

(* --------------------------------- C5 ---------------------------------- *)
\* C5: a lock call performs at most retry_count fan-outs and at most
\* retry_count - 1 sleeps; it sleeps only between two attempts, never after
\* the final attempt nor after a successful one.
C5_RetryBound ==
    \A c \in Callers :
        op[c] = "Lock" =>
            /\ fanouts[c] <= retryCount[c]
            /\ sleeps[c] <= retryCount[c] - 1
            /\ sleeps[c] = IF pc[c] = "sleep" THEN fanouts[c] ELSE fanouts[c] - 1

\* every instance denied every attempt and the call gave up
C5_Witness ==
    \E c \in Callers :
        /\ Returned(c, "Lock", "LockRetriesExceeded")
        /\ OkCount(answers[c]) = 0
        /\ fanouts[c] = retryCount[c]
        /\ sleeps[c] = retryCount[c] - 1
        /\ sleeps[c] >= 1

(* --------------------------------- C6 ---------------------------------- *)
\* C6: the MultiError of LockRetriesExceeded / ExtendRetriesExceeded holds
\* exactly the errors of the final attempt's fan-out, one per instance that
\* did not answer ok, none from earlier attempts or from cleanup releases.
C6_FinalAttemptErrors ==
    \A c \in Callers :
        (pc[c] = "done" /\ InCall(c) /\ result[c].kind # "Ok") =>
            result[c].errors = ErrorsOf(answers[c])

\* the call failed after a retry, and its last cleanup met errors of its own
C6_Witness ==
    \E c \in Callers :
        /\ pc[c] = "done" /\ InCall(c) /\ result[c].kind # "Ok"
        /\ fanouts[c] >= 2
        /\ Len(result[c].errors) >= 2
        /\ Len(ErrorsOf(relans[c])) >= 1

(* --------------------------------- C7 ---------------------------------- *)
\* the release calls made to instance i, by the value they carried
ReleasesTo(log, i) == SelectSeq(log, LAMBDA e : e.inst = i)

\* a failed attempt of lock enters the cleanup, and when the cleanup is left
\* every instance that voted has got one release with the attempt's value
C7_Attempt(c) ==
    /\ (pc[c] = "check" /\ op[c] = "Lock" /\ pc'[c] # "check"
            /\ ~(pc'[c] = "done" /\ result'[c].kind = "Ok"))
         => (pc'[c] = "unlock" /\ rellog'[c] = <<>>)
    /\ (pc[c] = "unlock" /\ op[c] = "Lock" /\ pc'[c] # "unlock")
         => /\ pc'[c] \in {"sleep", "done"}
            /\ (OkCount(answers[c]) >= 1 /\ OkCount(answers[c]) < quorum) =>
                 \A i \in OkSet(answers[c]) :
                    ReleasesTo(rellog'[c], i) = <<[inst |-> i, value |-> req[c].value]>>

\* C7: after every failed attempt of lock with 1 <= v < quorum votes, the
\* final one included, each instance that voted gets exactly one release call
\* with the attempt's value before the next attempt or the error return.
C7_Cleanup == [][\A c \in Callers : C7_Attempt(c)]_vars

\* the final attempt got one vote, and the error is being returned
C7_Witness ==
    \E c \in Callers :
        /\ Returned(c, "Lock", "LockRetriesExceeded")
        /\ OkCount(answers[c]) = 1
        /\ Len(rellog[c]) = NumInstances

(* --------------------------------- C8 ---------------------------------- *)
\* C8: unlock makes one release call per instance, in cluster order, without
\* retry or sleep; it returns Ok iff at least quorum instances answered ok,
\* else UnlockFailed with one error per instance whose release failed.
C8_Unlock ==
    \A c \in Callers :
        op[c] = "Unlock" =>
            /\ pc[c] \in {"unlock", "done"}
            /\ rellog[c] = [i \in 1 .. Len(rellog[c]) |->
                                [inst |-> i, value |-> held[c].value]]
            /\ pc[c] = "done" =>
                 /\ Len(rellog[c]) = NumInstances
                 /\ result[c].kind = "Ok" <=> OkCount(relans[c]) >= quorum
                 /\ result[c].kind # "Ok" =>
                      /\ result[c].kind = "UnlockFailed"
                      /\ result[c].errors = ErrorsOf(relans[c])

\* unlock failed with a release accepted by one instance only
C8_Witness ==
    \E c \in Callers :
        /\ Returned(c, "Unlock", "UnlockFailed")
        /\ OkCount(relans[c]) = quorum - 1
        /\ Len(result[c].errors) = NumInstances - quorum + 1

(* --------------------------------- C9 ---------------------------------- *)
FirstCall(c) == quota[c] = MaxCalls - 1
SecondCall(c) == quota[c] = MaxCalls - 2

\* C9 as stated: against healthy instances lock(r, ttl) on a free resource,
\* followed by unlock of the returned Lock, returns success from both.
C9_AsStated ==
    \A c \in Callers :
        /\ (NoFaultYet /\ FirstCall(c) /\ pc[c] = "done" /\ op[c] = "Lock")
              => result[c].kind = "Ok"
        /\ (NoFaultYet /\ SecondCall(c) /\ pc[c] = "done" /\ op[c] = "Unlock")
              => result[c].kind = "Ok"

\* an attempt of the lock whose fan-out ended before the candidate expiry
\* returns the Lock
C9_LockStep(c) ==
    (NoFaultYet /\ FirstCall(c) /\ pc[c] = "check" /\ op[c] = "Lock"
        /\ pc'[c] # "check" /\ now < cand[c].expiry)
      => (pc'[c] = "done" /\ result'[c].kind = "Ok")

\* the unlock that ended before the Lock's expiry returned Ok
C9_UnlockDone(c) ==
    (NoFaultYet /\ SecondCall(c) /\ pc[c] = "done" /\ op[c] = "Unlock"
        /\ now < held[c].expiry)
      => result[c].kind = "Ok"

\* C9 amended: against healthy instances and on a free resource, an attempt
\* of lock whose fan-out ends before start + ttl - drift returns the Lock, and
\* an unlock of that Lock that ends before the Lock's expiry returns Ok.
C9_RoundTrip ==
    /\ [](\A c \in Callers : C9_UnlockDone(c))
    /\ [][\A c \in Callers : C9_LockStep(c)]_vars

\* lock, then unlock within the lease, both returned Ok
C9_Witness ==
    \E c \in Callers :
        /\ NoFaultYet /\ SecondCall(c)
        /\ Returned(c, "Unlock", "Ok")
        /\ now < held[c].expiry

(* --------------------------------- C10 --------------------------------- *)
\* extend starts with the resource and value of the caller's Lock
C10_Call(c) ==
    (pc[c] = "idle" /\ op'[c] = "Extend") =>
        /\ req'[c].resource = held[c].resource
        /\ req'[c].value = held[c].value
        /\ cand'[c].resource = held[c].resource
        /\ cand'[c].value = held[c].value

\* an attempt of extend returns Ok when a quorum accepted within the window
C10_Attempt(c) ==
    (pc[c] = "check" /\ op[c] = "Extend" /\ pc'[c] # "check") =>
        ( (OkCount(answers[c]) >= quorum /\ cand[c].expiry > now)
          => (pc'[c] = "done" /\ result'[c].kind = "Ok") )

C10_Final(c) ==
    (pc[c] = "done" /\ op[c] = "Extend") =>
        /\ result[c].kind \in {"Ok", "ExtendRetriesExceeded"}
        /\ result[c].kind = "Ok" =>
             /\ held[c].resource = req[c].resource
             /\ held[c].value = req[c].value
             /\ held[c].ttl = req[c].ttl
             /\ OkCount(answers[c]) >= quorum
        /\ result[c].kind = "ExtendRetriesExceeded" => fanouts[c] = retryCount[c]

\* C10: extend runs the attempt loop with the extend primitive on the input
\* Lock's resource and value; it returns Ok when a quorum accepts within the
\* validity window, the Lock then carrying that resource and value and the
\* new ttl; when no attempt succeeds it returns ExtendRetriesExceeded.
C10_Extend ==
    /\ [](\A c \in Callers : C10_Final(c))
    /\ [][\A c \in Callers : C10_Call(c) /\ C10_Attempt(c)]_vars

\* extend failed: no attempt reached a quorum
C10_Witness ==
    \E c \in Callers :
        /\ Returned(c, "Extend", "ExtendRetriesExceeded")
        /\ OkCount(answers[c]) < quorum
        /\ fanouts[c] = retryCount[c]

(* --------------------------------- C11 --------------------------------- *)
\* the last answer a fan-out recorded
LastAnswer(ans) == ans[Len(ans)]
\* the step is an instance operation of caller c that no transport fault hit
CleanFanout(c, o) ==
    pc[c] = "fanout" /\ op[c] = o /\ idx'[c] = idx[c] + 1 /\ budget' = budget

C11_Step(c) ==
    CleanFanout(c, "Lock") =>
        LET i == idx[c]
            key == cand[c].resource
        IN  /\ IF store[i][key] = NoEntry
               THEN /\ LastAnswer(answers'[c]) = "Ok"
                    /\ store'[i] = [store[i] EXCEPT ![key] =
                                      [value |-> cand[c].value, exp |-> now + cand[c].ttl]]
               ELSE /\ LastAnswer(answers'[c]) = "ResourceLocked"
                    /\ store'[i] = store[i]
            /\ \A j \in Cluster \ {i} : store'[j] = store[j]

\* C11: Instance.acquire is an atomic set-if-absent.  It stores resource ->
\* value with expiry ttl and answers ok only when the key is absent; when the
\* key is present, even with the same value, it answers ResourceLocked and
\* leaves the stored value and its expiry unchanged.
C11_AcquireSetIfAbsent == [][\A c \in Callers : C11_Step(c)]_vars

\* an acquire was refused by an instance whose key holds the very value the
\* acquire presented (left behind by the caller's earlier attempt)
C11_Witness ==
    \E c \in Callers :
        /\ op[c] = "Lock" /\ pc[c] \in {"fanout", "check"}
        /\ Len(answers[c]) >= 1
        /\ answers[c][1] = "ResourceLocked"
        /\ store[1][cand[c].resource] # NoEntry
        /\ store[1][cand[c].resource].value = cand[c].value

(* --------------------------------- C12 --------------------------------- *)
\* the stored entry is the lease the Lock names
Owns(kv, lock) == kv[lock.resource] # NoEntry /\ kv[lock.resource].value = lock.value

C12_ExtendStep(c) ==
    CleanFanout(c, "Extend") =>
        LET i == idx[c]
            key == cand[c].resource
        IN  /\ IF Owns(store[i], cand[c])
               THEN /\ LastAnswer(answers'[c]) = "Ok"
                    /\ store'[i] = [store[i] EXCEPT ![key].exp = now + cand[c].ttl]
               ELSE /\ LastAnswer(answers'[c]) = "InvalidLease"
                    /\ store'[i] = store[i]
            /\ \A j \in Cluster \ {i} : store'[j] = store[j]

\* a release of caller c that no transport fault hit; its answer is read
\* where unlock() keeps it
C12_ReleaseStep(c) ==
    (pc[c] = "unlock" /\ Len(rellog'[c]) = Len(rellog[c]) + 1 /\ budget' = budget) =>
        LET i == idx[c]
            lock == UnlockArg(c)
            kept == Len(relans'[c]) = Len(relans[c]) + 1
        IN  /\ IF Owns(store[i], lock)
               THEN /\ kept => LastAnswer(relans'[c]) = "Ok"
                    /\ store'[i] = [store[i] EXCEPT ![lock.resource] = NoEntry]
               ELSE /\ kept => LastAnswer(relans'[c]) = "InvalidLease"
                    /\ store'[i] = store[i]
            /\ \A j \in Cluster \ {i} : store'[j] = store[j]

\* C12: Instance.extend and Instance.release act (reset the expiry to ttl,
\* delete the key) only if the value stored under resource equals lock.value;
\* when the stored value differs or the key is gone they answer InvalidLease
\* and leave the instance unchanged.
C12_CompareAndAct ==
    [][\A c \in Callers : C12_ExtendStep(c) /\ C12_ReleaseStep(c)]_vars

\* an extend was refused by an instance whose key holds another value, and
\* the instance kept that entry
C12_Witness ==
    \E c \in Callers :
        /\ op[c] = "Extend" /\ pc[c] \in {"fanout", "check"}
        /\ Len(answers[c]) >= 1
        /\ answers[c][1] = "InvalidLease"
        /\ store[1][cand[c].resource] # NoEntry
        /\ store[1][cand[c].resource].value # cand[c].value

(* --------------------------------- C13 --------------------------------- *)
\* the quorum of a built Manager is the smallest strict majority
C13_Built ==
    (manager.stage = "built" /\ manager.cluster >= 1) =>
        /\ 2 * manager.quorum > manager.cluster
        /\ 2 * (manager.quorum - 1) <= manager.cluster

\* an operation on the Manager leaves its quorum alone
C13_Kept ==
    manager.stage = "built" =>
        (manager'.stage = "built" /\ manager'.quorum = manager.quorum)

\* C13: for every cluster size N >= 1 the built Manager has quorum =
\* floor(N/2) + 1, hence 2 * quorum > N, and the quorum keeps that value
\* through every later lock, extend and unlock call.
C13_QuorumMajority == []C13_Built /\ [][C13_Kept]_vars

\* a Manager over an even cluster, after operations were called on it
C13_Witness ==
    /\ manager.stage = "built"
    /\ manager.cluster = 4 /\ manager.quorum = 3
    /\ uses = MaxUses

(* --------------------------------- C15 --------------------------------- *)
\* the larger of two integers
Max(a, b) == IF a >= b THEN a ELSE b

DefaultDelays ==
    /\ manager.stage = "built"
    /\ manager.retry_delay = 200
    /\ manager.retry_jitter = [ms |-> 100, half |-> 0]

\* C16: for a Manager built with defaults (retry_delay 200 ms, retry_jitter
\* 100) every value returned by get_retry_delay is strictly greater than
\* 100 ms and strictly less than 300 ms; in general the delay lies strictly
\* between retry_delay - retry_jitter and retry_delay + retry_jitter for every
\* sample of the jitter range.
C16_AsStated ==
    (sampled # NoSample /\ sampled.kind = "Ok") =>
        /\ DefaultDelays => (sampled.ms > 100 /\ sampled.ms < 300)
        /\ 2 * sampled.ms > 2 * manager.retry_delay - Halves(manager.retry_jitter)
        /\ 2 * sampled.ms < 2 * manager.retry_delay + Halves(manager.retry_jitter)

(* --------------------------------- C17 --------------------------------- *)
\* C17: the Builder rejects an empty cluster at build time, so no Manager
\* with N = 0 instances is ever produced.
C17_AsStated == manager.stage = "built" => manager.cluster >= 1

(* --------------------------------- C18 --------------------------------- *)
\* C18: a built Manager has retry_count 3 and retry_delay 200 ms unless
\* overridden, drift factor 0.01 always, and retry_jitter equal to half of
\* the configured retry_delay in milliseconds (200 ms gives 100, 100 ms
\* gives 50); overriding one option leaves the others at their defaults.
C18_Defaults ==
    manager.stage = "built" =>
        /\ IF asked.retry_count = {} THEN manager.retry_count = 3
           ELSE manager.retry_count \in asked.retry_count
        /\ IF asked.retry_delay = {} THEN manager.retry_delay = 200
           ELSE manager.retry_delay \in asked.retry_delay
        /\ manager.drift_factor = 1
        /\ manager.retry_jitter.half \in {0, 1}
        /\ 2 * manager.retry_jitter.ms + manager.retry_jitter.half = manager.retry_delay
        /\ manager.retry_delay = 200 => manager.retry_jitter = [ms |-> 100, half |-> 0]
        /\ manager.retry_delay = 100 => manager.retry_jitter = [ms |-> 50, half |-> 0]

\* only the delay was overridden: 100 ms, hence a jitter of 50
C18_Witness ==
    /\ manager.stage = "built"
    /\ asked = [retry_count |-> {}, retry_delay |-> {100}]
    /\ manager.retry_count = 3
    /\ manager.retry_jitter = [ms |-> 50, half |-> 0]

(* --------------------------------- C19 --------------------------------- *)
\* C19: MultiError.includes(kind) is equality on the error's tag, ignoring
\* payloads: it answers true if and only if some entry of the MultiError has
\* the same variant as kind, whatever payload the entry or the argument
\* carries.
C19_AsStated ==
    found # "None" =>
        (found = "true" <=> \E i \in 1 .. Len(multi) : multi[i].tag = elem.tag)

(* --------------------------------- C20 --------------------------------- *)
\* the caller is inside an operation that has not returned
Running(c) == pc[c] \in {"fanout", "check", "unlock", "sleep"}

\* a returned lock or extend made at most retry_count attempts and returned
\* Ok or its RetriesExceeded; a returned unlock made one fan-out
C20_Bounded ==
    \A c \in Callers :
        /\ InCall(c) => fanouts[c] <= retryCount[c]
        /\ (pc[c] = "done" /\ op[c] = "Lock") =>
               result[c].kind \in {"Ok", "LockRetriesExceeded"}
        /\ (pc[c] = "done" /\ op[c] = "Extend") =>
               result[c].kind \in {"Ok", "ExtendRetriesExceeded"}
        /\ (pc[c] = "done" /\ op[c] = "Unlock") =>
               /\ Len(rellog[c]) = NumInstances
               /\ fanouts[c] = 0 /\ sleeps[c] = 0

\* C20: provided every instance call returns, every lock and extend call
\* eventually returns, Ok or *RetriesExceeded, after at most retry_count
\* attempts, and every unlock call eventually returns after one fan-out; no
\* call blocks or loops indefinitely.
C20_Termination ==
    /\ []C20_Bounded
    /\ \A c \in Callers : Running(c) ~> (pc[c] = "done")

\* a lock that slept beyond the horizon of the clock and returned
C20_Witness ==
    \E c \in Callers :
        /\ Returned(c, "Lock", "LockRetriesExceeded")
        /\ sleeps[c] >= 1
        /\ now > MaxTime

(* --------------------------------- C21 --------------------------------- *)
\* the entry (resource -> value, ttl) the call of caller c stores at time t
Pair(c, t) == [value |-> req[c].value, exp |-> t + req[c].ttl]

\* while the call runs, the Lock it presents carries the call's arguments
C21_Presented ==
    \A c \in Callers :
        (InCall(c) /\ pc[c] \in {"fanout", "check", "unlock"}) =>
            /\ cand[c].resource = req[c].resource
            /\ cand[c].value = req[c].value
            /\ cand[c].ttl = req[c].ttl

C21_Step(c) ==
    \* lock draws its value once, extend takes the value of the input Lock
    /\ (pc[c] = "idle" /\ op'[c] = "Lock") =>
           (req'[c].value = nextNonce /\ nextNonce' # nextNonce)
    /\ (pc[c] = "idle" /\ op'[c] = "Extend") => req'[c].value = held[c].value
    \* the arguments stay the same through all attempts of the call
    /\ (InCall(c) /\ pc[c] # "done") => (req'[c] = req[c] /\ nextNonce' = nextNonce)
    \* an instance contacted by the fan-out stores that pair or nothing
    /\ (InCall(c) /\ pc[c] = "fanout" /\ idx'[c] = idx[c] + 1) =>
           \/ store'[idx[c]] = store[idx[c]]
           \/ store'[idx[c]] =
                [store[idx[c]] EXCEPT ![req[c].resource] = Pair(c, now)]
    \* the cleanup releases present the same value
    /\ (InCall(c) /\ pc[c] = "unlock" /\ Len(rellog'[c]) = Len(rellog[c]) + 1) =>
           LastAnswer(rellog'[c]).value = req[c].value

\* C21: the nonce is generated once per lock call and the same (resource,
\* value, ttl) is presented to every instance in every attempt of that call,
\* the cleanup releases included; an extend presents the value of the input
\* Lock.  Hence every instance contacted within one acquire or extend either
\* stored the identical (resource -> value, ttl) pair or nothing.
C21_OneNonce == []C21_Presented /\ [][\A c \in Callers : C21_Step(c)]_vars

\* a lock returned by its second attempt, and every instance stores its value
C21_Witness ==
    \E c \in Callers :
        /\ Returned(c, "Lock", "Ok")
        /\ attempt[c] = 2
        /\ \A i \in Cluster : store[i][req[c].resource].value = req[c].value

(* --------------------------------- C22 --------------------------------- *)
\* one step of the fan-out contacts the next instance of the cluster, and
\* only that one, whatever the earlier instances answered
C22_Step(c) ==
    (InCall(c) /\ pc[c] = "fanout" /\ idx'[c] # idx[c]) =>
        /\ idx[c] = Len(answers[c]) + 1
        /\ idx'[c] = idx[c] + 1
        /\ Len(answers'[c]) = Len(answers[c]) + 1
        /\ \A j \in Cluster \ {idx[c]} : store'[j] = store[j]
        /\ pc'[c] = (IF idx[c] = NumInstances THEN "check" ELSE "fanout")

\* the attempt is checked only when every instance answered once, and the
\* votes and the MultiError are those answers, in cluster order
C22_Checked ==
    \A c \in Callers :
        /\ (InCall(c) /\ pc[c] = "fanout") => Len(answers[c]) < NumInstances
        /\ (InCall(c) /\ pc[c] = "check") =>
               /\ Len(answers[c]) = NumInstances
               /\ votes[c] = OkCount(answers[c])
               /\ errors[c] = ErrorsOf(answers[c])

\* C22: within one attempt of lock or extend the Manager invokes the
\* primitive on every instance exactly once, in the cluster's declared
\* order, regardless of earlier outcomes in that attempt, and the MultiError
\* lists the errors in that same cluster order.
C22_FanoutOrder == []C22_Checked /\ [][\A c \in Callers : C22_Step(c)]_vars

\* two instances refused and the connection to the one between them failed:
\* the third was contacted although the quorum was out of reach
C22_Witness ==
    \E c \in Callers :
        /\ pc[c] = "check" /\ op[c] = "Lock"
        /\ answers[c] = <<"ResourceLocked", "RedisError", "ResourceLocked">>
        /\ errors[c] = answers[c]

(* --------------------------------- C23 --------------------------------- *)
\* C23: for every lock ttl, the connection timeout used by an instance
\* operation is floor(ttl * 0.01) milliseconds clamped to a minimum of 1 ms,
\* so it is never 0 even for ttl below 100 ms.
C23_AsStated ==
    sampled.kind = "Timeout" =>
        /\ sampled.ms = Max(1, sampled.ttl \div 100)
        /\ sampled.ms # 0

(* --------------------------------- C24 --------------------------------- *)
\* caller c's step is a round trip to instance i presenting value v
C24_Presents(c, i, v) ==
    /\ idx[c] = i
    /\ \/ pc[c] = "unlock" /\ UnlockArg(c).value = v
       \/ pc[c] = "fanout" /\ op[c] = "Extend" /\ cand[c].value = v
    /\ <<pc[c], idx[c]>> # <<pc'[c], idx'[c]>>

\* what may happen in one step to the entry of key k on instance i
C24_Entry(i, k) ==
    LET e == store[i][k]
        e2 == store'[i][k]
    IN  (e # NoEntry /\ e2 # e) =>
            \/ /\ e2 = NoEntry
               /\ now' = now + 1
               /\ e.exp <= now'
            \/ \E c \in Callers :
                  /\ C24_Presents(c, i, e.value)
                  /\ \/ pc[c] = "unlock" /\ e2 = NoEntry
                     \/ pc[c] = "fanout" /\ e2 = [value |-> e.value, exp |-> now + cand[c].ttl]

\* C24: no caller's operation removes or re-expires another caller's entry:
\* although the cleanup after a failed attempt and unlock call release on
\* every instance (including instances that denied this caller because
\* another caller holds the resource), an entry storing value v is deleted
\* or has its expiry reset only by a release/extend presenting v, or
\* disappears by its own expiry.
C24_OwnEntryOnly == [][\A i \in Cluster, k \in Resources : C24_Entry(i, k)]_vars

\* B's lock was denied by A's entries and its cleanup has called release on
\* instance 1, which still stores A's value
C24_Witness ==
    /\ op["B"] = "Lock" /\ pc["B"] = "unlock" /\ idx["B"] > 1
    /\ answers["B"] = <<"ResourceLocked", "ResourceLocked", "ResourceLocked">>
    /\ relans["B"][1] = "InvalidLease"
    /\ held["A"] # NoLock /\ lease["A"]
    /\ Owns(store[1], held["A"])
    /\ held["A"].value # cand["B"].value

(* --------------------------------- C25 --------------------------------- *)
\* a cleanup release of an extend call that answered ok leaves the instance
\* without the entry resource -> value
C25_ReleaseStep(c) ==
    (op[c] = "Extend" /\ pc[c] = "unlock" /\ Len(rellog'[c]) = Len(rellog[c]) + 1) =>
        /\ LastAnswer(rellog'[c]) = [inst |-> idx[c], value |-> req[c].value]
        /\ (n'[c] = n[c] + 1 \/ (pc'[c] = "sleep" /\ store'[idx[c]] # store[idx[c]])) =>
               ~Owns(store'[idx[c]], req[c])

\* a failed attempt of extend enters the cleanup
C25_CheckStep(c) ==
    (op[c] = "Extend" /\ pc[c] = "check" /\ pc'[c] # "check"
        /\ ~(pc'[c] = "done" /\ result'[c].kind = "Ok")) => pc'[c] = "unlock"

\* when extend has returned ExtendRetriesExceeded every instance got a
\* release with the lock's value, and none that answered ok stores it
C25_AtReturn ==
    \A c \in Callers :
        Returned(c, "Extend", "ExtendRetriesExceeded") =>
            /\ rellog[c] = [i \in Cluster |-> [inst |-> i, value |-> req[c].value]]
            /\ Len(relans[c]) = NumInstances
            /\ req[c].value = held[c].value
            /\ \A i \in OkSet(relans[c]) : ~Owns(store[i], held[c])

\* C25: a failed extend gives the lease up: whenever an extend attempt does
\* not reach quorum within the validity window, the Manager releases the
\* lock's value on every instance, so when extend returns
\* ExtendRetriesExceeded no instance whose release succeeded still stores
\* resource -> value, even though the expiry of the caller's original Lock may
\* not have passed yet.
C25_FailedExtendReleases ==
    /\ []C25_AtReturn
    /\ [][\A c \in Callers : C25_ReleaseStep(c) /\ C25_CheckStep(c)]_vars

\* extend has failed, its last cleanup was accepted by an instance, no
\* instance stores the value any more and the original Lock has not expired
C25_Witness ==
    \E c \in Callers :
        /\ Returned(c, "Extend", "ExtendRetriesExceeded")
        /\ OkCount(relans[c]) >= 1
        /\ \A i \in Cluster : store[i][held[c].resource] = NoEntry
        /\ held[c].expiry > now

(* --------------------------------- C26 --------------------------------- *)
\* the instances that do not store resource -> value of the call
C26_Gone(c) == {i \in Cluster : ~Owns(store[i], req[c])}

\* during an extend call an instance that lost the entry does not get it
\* back, and its answer to extend is InvalidLease (an error of the transport
\* when the round trip failed), never ok
C26_Step(c) ==
    (op[c] = "Extend" /\ req'[c] = req[c]) =>
        /\ \A i \in C26_Gone(c) : ~Owns(store'[i], req[c])
        /\ (pc[c] = "fanout" /\ idx'[c] # idx[c] /\ idx[c] \in C26_Gone(c)) =>
              /\ LastAnswer(answers'[c]) # "Ok"
              /\ budget' = budget => LastAnswer(answers'[c]) = "InvalidLease"
              /\ votes'[c] = votes[c]

\* an attempt made with more than N - quorum instances gone fails
C26_Checked ==
    \A c \in Callers :
        (op[c] = "Extend" /\ pc[c] = "check"
            /\ Cardinality(C26_Gone(c)) > NumInstances - quorum) =>
                ~Granted(votes[c], cand[c], now)

\* C26: retries of extend cannot recover after a cleanup: if an attempt of an
\* extend call fails and its cleanup release succeeds on an instance, then in
\* every later attempt of the same extend call that instance answers
\* InvalidLease (its entry for the value is gone and extend never re-creates
\* it); so when the cleanup release succeeded on more than N - quorum
\* instances, all remaining attempts of that call fail.
C26_NoRecovery ==
    /\ []C26_Checked
    /\ [][\A c \in Callers : C26_Step(c)]_vars

\* the first attempt of an extend was cleaned up on every instance and the
\* second attempt got InvalidLease from all of them
C26_Witness ==
    \E c \in Callers :
        /\ op[c] = "Extend" /\ pc[c] = "check" /\ attempt[c] = 2
        /\ answers[c] = [i \in Cluster |-> "InvalidLease"]
        /\ Len(rellog[c]) = NumInstances
        /\ held[c].expiry > now

====
